---- MODULE Spec2Model ----
(***************************************************************************)
(* State machine of the ollama-tui-rs session engine (src/src/main.rs):    *)
(* the App struct, its run loop, the key handler of the two input modes,   *)
(* the text input with its scalar-value cursor, the model list and the     *)
(* chat log that the Ollama chat call feeds.                               *)
(*                                                                         *)
(* A Rust String is modelled as what it is, a sequence of UTF-8 bytes; a   *)
(* char is its Unicode scalar value.                                       *)
(***************************************************************************)
EXTENDS Integers, Sequences, FiniteSets, TLC

\* ------------------------------------------------------------------ bounds

\* Longest input buffer, in scalar values, that the model lets the user type.
MaxInput == 2
\* Longest chat log a submission and its whole response may make (see CanSubmit).
MaxLog == 4
\* Most fragments one chat response is made of.
MaxFragments == 2
\* Highest index the model lets select-next step to and select-previous step
\* from (usize::MAX, which select-previous sets from no selection, aside).
MaxSelection == 2

\* ------------------------------------------------------------- input sets

\* 'e' (1 byte in UTF-8, also the enter-edit key) and U+00E9 (2 bytes).
Chars == {101, 233}

\* The messages the model lets the user submit: "e" and U+00E9 'e'.
Messages == {<<101>>, <<195, 169, 101>>}

\* Chars of every encoded width typed into the editor: 'e', U+00E9, U+20AC and
\* U+1F600, of 1, 2, 3 and 4 bytes.
EditorChars == {101, 233, 8364, 128512}

\* Models whose streamed answers are folded.
FoldModels == {"A", "B"}

\* Model names the server may list.
Catalogs == {<< >>, <<"A", "B">>}

\* KeyCode, with the char of KeyCode::Char.
KeyCode(code) == [code |-> code, c |-> 0]
KeyCodeChar(c) == [code |-> "Char", c |-> c]

\* Keys without an arm of their own in Normal mode, and in Editing mode, where
\* the arms of Down and Up are empty.
OtherNormalKeys == {KeyCode("Tab"), KeyCodeChar(233)}
UnboundEditingKeys == {KeyCode("Down"), KeyCode("Up"), KeyCode("Tab")}

\* Terminal heights handed to draw: too small for any area, and one whose chat
\* area shows 1 line of the log under two models and 3 lines under none.
FrameHeights == {7, 17}

\* Text of the fragments of one streamed answer, in order: "He", "llo", "!".
FragmentTexts == <<  <<72, 101>>, <<108, 108, 111>>, <<33>>  >>

\* Option<T>: None, Some(x).
None == << >>
Some(x) == <<x>>

\* ---------------------------------------------------------- UTF-8 strings

Min(a, b) == IF a < b THEN a ELSE b
Max(a, b) == IF a > b THEN a ELSE b

\* char::encode_utf8 as String::insert / collect::<String>() apply it.
Utf8Encode(c) ==
    IF c < 128 THEN <<c>>
    ELSE IF c < 2048 THEN <<192 + (c \div 64), 128 + (c % 64)>>
    ELSE IF c < 65536
         THEN <<224 + (c \div 4096), 128 + ((c \div 64) % 64), 128 + (c % 64)>>
         ELSE <<240 + (c \div 262144), 128 + ((c \div 4096) % 64),
                128 + ((c \div 64) % 64), 128 + (c % 64)>>

\* Width of the encoded scalar value that starts with lead byte b.
Utf8Width(b) ==
    IF b < 128 THEN 1 ELSE IF b < 224 THEN 2 ELSE IF b < 240 THEN 3 ELSE 4

\* The scalar value encoded by the bytes s[i .. i + Utf8Width(s[i]) - 1].
Utf8DecodeAt(s, i) ==
    LET w == Utf8Width(s[i]) IN
    IF w = 1 THEN s[i]
    ELSE IF w = 2 THEN (s[i] - 192) * 64 + (s[i + 1] - 128)
    ELSE IF w = 3
         THEN (s[i] - 224) * 4096 + (s[i + 1] - 128) * 64 + (s[i + 2] - 128)
         ELSE (s[i] - 240) * 262144 + (s[i + 1] - 128) * 4096
              + (s[i + 2] - 128) * 64 + (s[i + 3] - 128)

RECURSIVE CharIndicesFrom(_, _)
\* str::char_indices from 1-based byte position i: <<byte offset, char>> pairs,
\* byte offsets 0-based as in Rust.
CharIndicesFrom(s, i) ==
    IF i > Len(s) THEN << >>
    ELSE << <<i - 1, Utf8DecodeAt(s, i)>> >> \o CharIndicesFrom(s, i + Utf8Width(s[i]))

\* str::char_indices.
CharIndices(s) == CharIndicesFrom(s, 1)

\* str::chars: the scalar values of s, in order.
StrChars(s) == [k \in 1..Len(CharIndices(s)) |-> CharIndices(s)[k][2]]

RECURSIVE Collect(_)
\* Iterator<Item = char>::collect::<String>().
Collect(cs) ==
    IF cs = << >> THEN << >> ELSE Utf8Encode(Head(cs)) \o Collect(Tail(cs))

\* str::is_char_boundary(idx), idx a 0-based byte offset.
IsCharBoundary(s, idx) ==
    \/ idx = 0
    \/ idx = Len(s)
    \/ idx < Len(s) /\ (s[idx + 1] < 128 \/ s[idx + 1] >= 192)

\* String::insert(idx, c) on a char boundary.
StringInsert(s, idx, c) ==
    SubSeq(s, 1, idx) \o Utf8Encode(c) \o SubSeq(s, idx + 1, Len(s))

\* ------------------------------------------------------------------ state

VARIABLES
    exit,                   \* App.exit
    models,                 \* App.models_info.models.models, as model names
    list_selected,          \* App.models_info.selected_model (ListState.selected)
    selected_model,         \* App.selected_model.name ("" for Model::default())
    last_chat_area_height,  \* App.last_chat_area_height
    input,                  \* App.input, UTF-8 bytes
    input_mode,             \* App.input_mode
    character_index,        \* App.character_index
    chat_log,               \* App.chat_log.history
    chat_scroll,            \* App.chat_scroll
    content_length,         \* App.chat_scroll_state.content_length
    chat_request,           \* the ChatRequest an awaited OllamaApi::chat was given
    key,                    \* the key code App::run read in this iteration
    pc,                     \* where App::run is
    panicked                \* the panic that ended the process, if any

vars == <<exit, models, list_selected, selected_model, last_chat_area_height,
          input, input_mode, character_index, chat_log, chat_scroll,
          content_length, chat_request, key, pc, panicked>>

\* usize::MAX, as far as TLC's 32-bit integers go: the code only ever compares
\* this value with a catalog length, which it exceeds either way.
UsizeMax == 2147483647

\* usize::saturating_sub / usize::saturating_add.
SaturatingSub(a, b) == IF a >= b THEN a - b ELSE 0
SaturatingAdd(a, b) == IF a >= UsizeMax - b THEN UsizeMax ELSE a + b

\* impl Default for App.
Init ==
    /\ exit = FALSE
    /\ models = << >>
    /\ list_selected = None
    /\ selected_model = ""
    /\ last_chat_area_height = 0
    /\ input = << >>
    /\ input_mode = "Normal"
    /\ character_index = 0
    /\ chat_log = << >>
    /\ chat_scroll = 0
    /\ content_length = 0
    /\ chat_request = None
    /\ key = None
    /\ pc = "load"
    /\ panicked = None

\* ------------------------------------------------------------ text input

\* get_character_index that takes the cursor's char count for a byte offset.
get_character_index_as_bytes(inp, ci) == Min(ci, Len(inp))

\* App::get_character_index: the byte offset of the cursor.
get_character_index(inp, ci) ==
    IF ci < Len(CharIndices(inp)) THEN CharIndices(inp)[ci + 1][1] ELSE Len(inp)

\* clamp_cursor with the bound taken in bytes (input.len()) instead of chars.
clamp_cursor_bytes(inp, cursor_index) ==
    Max(0, Min(cursor_index, Len(inp)))

\* App::clamp_cursor.
clamp_cursor(inp, cursor_index) ==
    Max(0, Min(cursor_index, Len(StrChars(inp))))

\* App::move_cursor_left: the new character_index.
move_cursor_left(inp, ci) == clamp_cursor(inp, SaturatingSub(ci, 1))

\* App::move_cursor_right: the new character_index.
move_cursor_right(inp, ci) == clamp_cursor(inp, SaturatingAdd(ci, 1))

\* App::reset_cursor.
reset_cursor == 0

\* App::update_input: the new input and character_index; String::insert
\* panics off a char boundary.
update_input(inp, ci, c) ==
    LET index == get_character_index(inp, ci) IN
    IF ~IsCharBoundary(inp, index)
    THEN [input |-> inp, character_index |-> ci, panic |-> Some("char_boundary")]
    ELSE LET new == StringInsert(inp, index, c) IN
         [input |-> new, character_index |-> move_cursor_right(new, ci),
          panic |-> None]

\* delete_input that drops the char under the cursor instead of the one
\* before it.
delete_input_at_cursor(inp, ci) ==
    IF ci # 0
    THEN LET cs == StrChars(inp)
             before_char_to_delete == SubSeq(cs, 1, Min(ci, Len(cs)))
             after_char_to_delete == SubSeq(cs, ci + 2, Len(cs))
             new == Collect(before_char_to_delete \o after_char_to_delete)
         IN [input |-> new, character_index |-> move_cursor_left(new, ci)]
    ELSE [input |-> inp, character_index |-> ci]

\* App::delete_input: the new input and character_index.
delete_input(inp, ci) ==
    IF ci # 0
    THEN LET cs == StrChars(inp)
             before_char_to_delete == SubSeq(cs, 1, Min(ci - 1, Len(cs)))
             after_char_to_delete == SubSeq(cs, ci + 1, Len(cs))
             new == Collect(before_char_to_delete \o after_char_to_delete)
         IN [input |-> new, character_index |-> move_cursor_left(new, ci)]
    ELSE [input |-> inp, character_index |-> ci]

\* ------------------------------------------------------------- model list

\* select_next that counts an absent selection as the first item, so that the
\* first step lands on the second one.
select_next_from_first(sel) ==
    IF sel = None THEN Some(1) ELSE Some(SaturatingAdd(sel[1], 1))

\* ListState::select_next, as App::handle_key calls it: no bound is applied
\* until the list is next rendered.
select_next(sel) == IF sel = None THEN Some(0) ELSE Some(SaturatingAdd(sel[1], 1))

\* ListState::select_previous, as App::handle_key calls it.
select_previous(sel) ==
    IF sel = None THEN Some(UsizeMax) ELSE Some(SaturatingSub(sel[1], 1))

\* App::select_model: the new active model, or an index-out-of-bounds panic.
select_model(ms, sel, active) ==
    IF sel = None THEN [selected_model |-> active, panic |-> None]
    ELSE IF sel[1] >= Len(ms)
         THEN [selected_model |-> active, panic |-> Some("index_out_of_bounds")]
         ELSE [selected_model |-> ms[sel[1] + 1], panic |-> None]

\* ------------------------------------------------------------------ layout

HeaderHeight == 6
FooterHeight == 1
InputHeight == 3
ListRows == 2

\* App::draw, the Layout::vertical splits of a frame h rows high with n models:
\* a Length constraint is served before a Fill.
MiddleHeight(h) == SaturatingSub(h, HeaderHeight + FooterHeight)
ListBlockHeight(h, n) == Min(n + 2, MiddleHeight(h))
ChatBlockHeight(h, n) == MiddleHeight(h) - ListBlockHeight(h, n)
ListAreaHeight(h, n) == Min(ListRows, ListBlockHeight(h, n))
ChatAreaHeight(h, n) == ChatBlockHeight(h, n) - Min(InputHeight, ChatBlockHeight(h, n))

\* App::render_model_list: List's render leaves the state alone in an empty
\* area, deselects on an empty list, and pulls a selection past the end back
\* to the last item.
render_model_list(ms, sel, list_height) ==
    IF list_height = 0 THEN sel
    ELSE IF Len(ms) = 0 THEN None
    ELSE IF sel # None /\ sel[1] >= Len(ms) THEN Some(Len(ms) - 1)
    ELSE sel

\* App::render_chat: the scrollbar's content_length for a chat area of
\* area_height >= 2 rows.
render_chat(log, area_height) == SaturatingSub(Len(log), area_height - 2)

\* ---------------------------------------------------------------- chat log

\* MessageChunk.
MessageChunk(role, content) == [role |-> role, content |-> content, images |-> None]

\* input_chat with the request's model left at String::new().
input_chat_unnamed(inp, active) ==
    [author |-> "user",
     content |-> inp,
     origin_content |->
        << [type |-> "OllamaRequest",
            model |-> "",
            messages |-> << MessageChunk("user", inp) >>] >>]

\* App::chat_message: the Chat built from the input.
input_chat(inp, active) ==
    [author |-> "user",
     content |-> inp,
     origin_content |->
        << [type |-> "OllamaRequest",
            model |-> active,
            messages |-> << MessageChunk("user", inp) >>] >>]

\* The i-th ChatResponse of a stream of k that answers request req.
ChatResponse(req, i, k) ==
    [type |-> "OllamaResponse",
     model |-> req.model,
     created_at |-> i,
     message |-> MessageChunk("assistant", FragmentTexts[i]),
     done |-> (i = k)]

\* What OllamaApi::chat returns for k chunks: Ok(Vec<ChatResponse>).
Responses(req, k) == [i \in 1..k |-> ChatResponse(req, i, k)]

\* update_chat_log_single writing over the last entry instead of pushing.
update_chat_log_single_overwriting(log, chat, stream) ==
    IF log = << >> THEN <<chat>> ELSE [log EXCEPT ![Len(log)] = chat]

\* App::update_chat_log_single.
update_chat_log_single(log, chat, stream) == Append(log, chat)

\* update_chat_log_multiple that keeps the payload of the last chat only.
update_chat_log_multiple_last_only(log, chats) ==
    IF chats = << >> THEN [chat_log |-> log, panic |-> Some("unwrap")]
    ELSE LET new_chat == [author |-> "assistant",
                          content |-> chats[Len(chats)].content,
                          origin_content |-> <<chats[Len(chats)].origin_content>>]
         IN [chat_log |-> Append(log, new_chat), panic |-> None]

\* App::update_chat_log_multiple: chats.last().unwrap() panics on no chats;
\* origin_content collects each chat's origin_content, in the order of chats.
update_chat_log_multiple(log, chats) ==
    IF chats = << >> THEN [chat_log |-> log, panic |-> Some("unwrap")]
    ELSE LET new_chat == [author |-> "assistant",
                          content |-> chats[Len(chats)].content,
                          origin_content |->
                              [i \in 1..Len(chats) |-> chats[i].origin_content]]
         IN [chat_log |-> Append(log, new_chat), panic |-> None]

\* chat_message without its early return on an empty input.
chat_message_unguarded(inp, log, active) ==
    LET chat == input_chat(inp, active) IN
    [chat_log |-> update_chat_log_single(log, chat, FALSE),
     chat_request |-> Some(chat.origin_content[1])]

\* App::chat_message up to its await: the new log and the request handed to
\* App::chat, if any.
chat_message(inp, log, active) ==
    IF inp = << >> THEN [chat_log |-> log, chat_request |-> None]
    ELSE LET chat == input_chat(inp, active) IN
         [chat_log |-> update_chat_log_single(log, chat, FALSE),
          chat_request |-> Some(chat.origin_content[1])]

\* App::chat calls update_chat_log(chat, true); main.rs has no function of
\* that name, and the one log function that takes (Chat, bool) is
\* update_chat_log_single, which the call is read as.
update_chat_log(log, chat, stream) == update_chat_log_single(log, chat, stream)

RECURSIVE chat_ok(_, _)
\* App::chat, the Ok arm: one update_chat_log per response, in order.
chat_ok(log, responses) ==
    IF responses = << >> THEN log
    ELSE LET response == Head(responses)
             chat_response == [author |-> "assistant",
                               content |-> response.message.content,
                               origin_content |-> <<response>>]
         IN chat_ok(update_chat_log(log, chat_response, TRUE), Tail(responses))

\* ------------------------------------------------------------ App::run

\* OllamaApi::get_models answers Ok: App::load_models stores the list.
LoadModelsOk ==
    /\ pc = "load"
    /\ \E ms \in Catalogs : models' = ms
    /\ pc' = "draw"
    /\ UNCHANGED <<exit, list_selected, selected_model, last_chat_area_height,
                   input, input_mode, character_index, chat_log, chat_scroll,
                   content_length, chat_request, key, panicked>>

\* OllamaApi::get_models answers Err (the request could not be sent):
\* App::load_models reports it on stderr.
LoadModelsErr ==
    /\ pc = "load"
    /\ pc' = "draw"
    /\ UNCHANGED <<exit, models, list_selected, selected_model,
                   last_chat_area_height, input, input_mode, character_index,
                   chat_log, chat_scroll, content_length, chat_request, key,
                   panicked>>

\* OllamaApi::get_models: the body cannot be read or is no ModelList, and the
\* unwrap panics.
LoadModelsPanics ==
    /\ pc = "load"
    /\ pc' = "aborted"
    /\ panicked' = Some("unwrap")
    /\ UNCHANGED <<exit, models, list_selected, selected_model,
                   last_chat_area_height, input, input_mode, character_index,
                   chat_log, chat_scroll, content_length, chat_request, key>>

\* App::draw on a frame h rows high whose chat area has at least 2 rows; it
\* opens a loop iteration, in which no key is read yet.
Draw(h) ==
    /\ pc = "draw"
    /\ ChatAreaHeight(h, Len(models)) >= 2
    /\ list_selected' =
          render_model_list(models, list_selected, ListAreaHeight(h, Len(models)))
    /\ content_length' = render_chat(chat_log, ChatAreaHeight(h, Len(models)))
    /\ last_chat_area_height' = ChatAreaHeight(h, Len(models))
    /\ key' = None
    /\ pc' = "read"
    /\ UNCHANGED <<exit, models, selected_model, input, input_mode,
                   character_index, chat_log, chat_scroll, chat_request, panicked>>

\* App::draw with a chat area of fewer than 2 rows, overflow checks off:
\* area.height as usize - 2 wraps, and the saturating_sub from the log's
\* length is 0.
DrawWraps(h) ==
    /\ pc = "draw"
    /\ ChatAreaHeight(h, Len(models)) < 2
    /\ list_selected' =
          render_model_list(models, list_selected, ListAreaHeight(h, Len(models)))
    /\ content_length' = 0
    /\ last_chat_area_height' = ChatAreaHeight(h, Len(models))
    /\ key' = None
    /\ pc' = "read"
    /\ UNCHANGED <<exit, models, selected_model, input, input_mode,
                   character_index, chat_log, chat_scroll, chat_request, panicked>>

\* App::draw with a chat area of fewer than 2 rows, overflow checks on:
\* area.height as usize - 2 panics in render_chat, after render_model_list.
DrawPanics(h) ==
    /\ pc = "draw"
    /\ ChatAreaHeight(h, Len(models)) < 2
    /\ list_selected' =
          render_model_list(models, list_selected, ListAreaHeight(h, Len(models)))
    /\ key' = None
    /\ pc' = "aborted"
    /\ panicked' = Some("subtract_overflow")
    /\ UNCHANGED <<exit, models, selected_model, last_chat_area_height, input,
                   input_mode, character_index, chat_log, chat_scroll,
                   content_length, chat_request>>

\* App::run / App::handle_key: an event that is no key press is dropped.
IgnoredEvent ==
    /\ pc = "read"
    /\ pc' = "draw"
    /\ UNCHANGED <<exit, models, list_selected, selected_model,
                   last_chat_area_height, input, input_mode, character_index,
                   chat_log, chat_scroll, content_length, chat_request, key,
                   panicked>>

\* ----------------------------------------- App::handle_key, InputMode::Normal

\* KeyCode::Esc; the while !self.exit of App::run then ends the loop.
NormalEsc ==
    /\ pc = "read" /\ input_mode = "Normal"
    /\ key' = Some(KeyCode("Esc"))
    /\ exit' = TRUE
    /\ pc' = "done"
    /\ UNCHANGED <<models, list_selected, selected_model, last_chat_area_height,
                   input, input_mode, character_index, chat_log, chat_scroll,
                   content_length, chat_request, panicked>>

\* KeyCode::Char('e') without the check for an active model.
NormalEditUnchecked ==
    /\ pc = "read" /\ input_mode = "Normal"
    /\ key' = Some(KeyCodeChar(101))
    /\ input_mode' = "Editing"
    /\ pc' = "draw"
    /\ UNCHANGED <<exit, models, list_selected, selected_model,
                   last_chat_area_height, input, character_index, chat_log,
                   chat_scroll, content_length, chat_request, panicked>>

\* KeyCode::Char('e').
NormalEdit ==
    /\ pc = "read" /\ input_mode = "Normal"
    /\ key' = Some(KeyCodeChar(101))
    /\ input_mode' = IF selected_model = "" THEN input_mode ELSE "Editing"
    /\ pc' = "draw"
    /\ UNCHANGED <<exit, models, list_selected, selected_model,
                   last_chat_area_height, input, character_index, chat_log,
                   chat_scroll, content_length, chat_request, panicked>>

\* KeyCode::Down.
NormalDown ==
    /\ pc = "read" /\ input_mode = "Normal"
    /\ IF list_selected = Some(UsizeMax) THEN TRUE
       ELSE select_next(list_selected)[1] <= MaxSelection
    /\ key' = Some(KeyCode("Down"))
    /\ list_selected' = select_next(list_selected)
    /\ pc' = "draw"
    /\ UNCHANGED <<exit, models, selected_model, last_chat_area_height, input,
                   input_mode, character_index, chat_log, chat_scroll,
                   content_length, chat_request, panicked>>

\* KeyCode::Up.
NormalUp ==
    /\ pc = "read" /\ input_mode = "Normal"
    /\ IF list_selected = None THEN TRUE ELSE list_selected[1] <= MaxSelection
    /\ key' = Some(KeyCode("Up"))
    /\ list_selected' = select_previous(list_selected)
    /\ pc' = "draw"
    /\ UNCHANGED <<exit, models, selected_model, last_chat_area_height, input,
                   input_mode, character_index, chat_log, chat_scroll,
                   content_length, chat_request, panicked>>

\* KeyCode::Enter: App::select_model.
NormalEnter ==
    /\ pc = "read" /\ input_mode = "Normal"
    /\ key' = Some(KeyCode("Enter"))
    /\ LET r == select_model(models, list_selected, selected_model) IN
         /\ selected_model' = r.selected_model
         /\ panicked' = r.panic
         /\ pc' = IF r.panic = None THEN "draw" ELSE "aborted"
    /\ UNCHANGED <<exit, models, list_selected, last_chat_area_height, input,
                   input_mode, character_index, chat_log, chat_scroll,
                   content_length, chat_request>>

\* Any other key code.
NormalOther(k) ==
    /\ pc = "read" /\ input_mode = "Normal"
    /\ key' = Some(k)
    /\ pc' = "draw"
    /\ UNCHANGED <<exit, models, list_selected, selected_model,
                   last_chat_area_height, input, input_mode, character_index,
                   chat_log, chat_scroll, content_length, chat_request, panicked>>

\* ---------------------------------------- App::handle_key, InputMode::Editing

\* The model lets a submission start only while the log has room for the
\* user's message and a whole response, and only with one of Messages.
CanSubmit ==
    /\ Len(chat_log) + 1 + MaxFragments <= MaxLog
    /\ input \in Messages

\* KeyCode::Enter: App::chat_message up to the await of App::chat, or to its
\* early return.
EditingEnter ==
    /\ pc = "read" /\ input_mode = "Editing"
    /\ input # << >> => CanSubmit
    /\ key' = Some(KeyCode("Enter"))
    /\ LET r == chat_message(input, chat_log, selected_model) IN
         /\ chat_log' = r.chat_log
         /\ chat_request' = r.chat_request
         /\ pc' = IF r.chat_request = None THEN "draw" ELSE "awaiting"
    /\ UNCHANGED <<exit, models, list_selected, selected_model,
                   last_chat_area_height, input, input_mode, character_index,
                   chat_scroll, content_length, panicked>>

\* KeyCode::Char(c): App::update_input.
EditingChar(c) ==
    /\ pc = "read" /\ input_mode = "Editing"
    /\ Len(StrChars(input)) < MaxInput
    /\ key' = Some(KeyCodeChar(c))
    /\ LET r == update_input(input, character_index, c) IN
         /\ input' = r.input
         /\ character_index' = r.character_index
         /\ panicked' = r.panic
         /\ pc' = IF r.panic = None THEN "draw" ELSE "aborted"
    /\ UNCHANGED <<exit, models, list_selected, selected_model,
                   last_chat_area_height, input_mode, chat_log, chat_scroll,
                   content_length, chat_request>>

\* KeyCode::Backspace: App::delete_input.
EditingBackspace ==
    /\ pc = "read" /\ input_mode = "Editing"
    /\ key' = Some(KeyCode("Backspace"))
    /\ LET r == delete_input(input, character_index) IN
         /\ input' = r.input
         /\ character_index' = r.character_index
    /\ pc' = "draw"
    /\ UNCHANGED <<exit, models, list_selected, selected_model,
                   last_chat_area_height, input_mode, chat_log, chat_scroll,
                   content_length, chat_request, panicked>>

\* KeyCode::Left.
EditingLeft ==
    /\ pc = "read" /\ input_mode = "Editing"
    /\ key' = Some(KeyCode("Left"))
    /\ character_index' = move_cursor_left(input, character_index)
    /\ pc' = "draw"
    /\ UNCHANGED <<exit, models, list_selected, selected_model,
                   last_chat_area_height, input, input_mode, chat_log,
                   chat_scroll, content_length, chat_request, panicked>>

\* KeyCode::Right.
EditingRight ==
    /\ pc = "read" /\ input_mode = "Editing"
    /\ key' = Some(KeyCode("Right"))
    /\ character_index' = move_cursor_right(input, character_index)
    /\ pc' = "draw"
    /\ UNCHANGED <<exit, models, list_selected, selected_model,
                   last_chat_area_height, input, input_mode, chat_log,
                   chat_scroll, content_length, chat_request, panicked>>

\* KeyCode::Down taken as the scroll step of the commented-out arm without its
\* clamp: the offset grows on every press.
EditingUnboundScrolling(k) ==
    /\ pc = "read" /\ input_mode = "Editing"
    /\ key' = Some(k)
    /\ pc' = "draw"
    /\ chat_scroll' = IF k = KeyCode("Down") THEN SaturatingAdd(chat_scroll, 1)
                      ELSE chat_scroll
    /\ UNCHANGED <<exit, models, list_selected, selected_model,
                   last_chat_area_height, input, input_mode, character_index,
                   chat_log, content_length, chat_request, panicked>>

\* KeyCode::Down and KeyCode::Up, whose arms hold only commented-out code,
\* and any other key code.
EditingUnbound(k) ==
    /\ pc = "read" /\ input_mode = "Editing"
    /\ key' = Some(k)
    /\ pc' = "draw"
    /\ UNCHANGED <<exit, models, list_selected, selected_model,
                   last_chat_area_height, input, input_mode, character_index,
                   chat_log, chat_scroll, content_length, chat_request, panicked>>

\* KeyCode::Esc in Editing mode handled as in Normal mode: it ends the session.
EditingEscExits ==
    /\ pc = "read" /\ input_mode = "Editing"
    /\ key' = Some(KeyCode("Esc"))
    /\ exit' = TRUE
    /\ pc' = "done"
    /\ UNCHANGED <<models, list_selected, selected_model, last_chat_area_height,
                   input, input_mode, character_index, chat_log, chat_scroll,
                   content_length, chat_request, panicked>>

\* KeyCode::Esc.
EditingEsc ==
    /\ pc = "read" /\ input_mode = "Editing"
    /\ key' = Some(KeyCode("Esc"))
    /\ input_mode' = "Normal"
    /\ pc' = "draw"
    /\ UNCHANGED <<exit, models, list_selected, selected_model,
                   last_chat_area_height, input, character_index, chat_log,
                   chat_scroll, content_length, chat_request, panicked>>

\* ------------------------------------------- App::chat, after the await

\* OllamaApi::chat answers Ok with k responses: App::chat logs each, then
\* App::chat_message clears the input and resets the cursor.
ChatOk(k) ==
    /\ pc = "awaiting"
    /\ chat_log' = chat_ok(chat_log, Responses(chat_request[1], k))
    /\ input' = << >>
    /\ character_index' = reset_cursor
    /\ chat_request' = None
    /\ pc' = "draw"
    /\ UNCHANGED <<exit, models, list_selected, selected_model,
                   last_chat_area_height, input_mode, chat_scroll,
                   content_length, key, panicked>>

\* OllamaApi::chat answers Err (the request could not be sent, or the status
\* is no success): App::chat reports it on stderr, then App::chat_message
\* clears the input and resets the cursor.
ChatErr ==
    /\ pc = "awaiting"
    /\ input' = << >>
    /\ character_index' = reset_cursor
    /\ chat_request' = None
    /\ pc' = "draw"
    /\ UNCHANGED <<exit, models, list_selected, selected_model,
                   last_chat_area_height, input_mode, chat_log, chat_scroll,
                   content_length, key, panicked>>

\* OllamaApi::chat: a chunk of the body stream is an error or is no
\* ChatResponse, and the unwrap inside the stream's map panics.
ChatPanics ==
    /\ pc = "awaiting"
    /\ pc' = "aborted"
    /\ panicked' = Some("unwrap")
    /\ UNCHANGED <<exit, models, list_selected, selected_model,
                   last_chat_area_height, input, input_mode, character_index,
                   chat_log, chat_scroll, content_length, chat_request, key>>

\* App::handle_key on a key press.
HandleKey ==
    \/ NormalEsc \/ NormalEdit \/ NormalDown \/ NormalUp \/ NormalEnter
    \/ \E k \in OtherNormalKeys : NormalOther(k)
    \/ EditingEnter
    \/ \E c \in Chars : EditingChar(c)
    \/ EditingBackspace \/ EditingLeft \/ EditingRight
    \/ \E k \in UnboundEditingKeys : EditingUnbound(k)
    \/ EditingEsc

Next ==
    \/ LoadModelsOk \/ LoadModelsErr \/ LoadModelsPanics
    \/ \E h \in FrameHeights : Draw(h) \/ DrawWraps(h) \/ DrawPanics(h)
    \/ IgnoredEvent
    \/ HandleKey
    \/ \E k \in 0..MaxFragments : ChatOk(k)
    \/ ChatErr \/ ChatPanics

Spec == Init /\ [][Next]_vars

\* ------------------------------------------------------------- properties

\* C1: after every step of every run, the cursor character_index lies between
\* 0 and the number of scalar values in the input buffer.
C1_CursorWithinInput ==
    /\ 0 <= character_index
    /\ character_index <= Len(StrChars(input))

\* C1: cursor-right was handled in Editing mode with the cursor at the end of
\* a two-char, three-byte buffer.
C1_Witness ==
    /\ input_mode = "Editing"
    /\ key = Some(KeyCode("Right"))
    /\ input = <<195, 169, 101>>
    /\ character_index = 2

\* C2: the session starts in Normal mode, and whenever the mode is Editing an
\* active model is confirmed (its name is not empty), so enter-edit without an
\* active model leaves the mode Normal.
C2_EditingNeedsActiveModel ==
    /\ pc = "load" => input_mode = "Normal"
    /\ input_mode = "Editing" => selected_model # ""

\* C2: enter-edit was handled with model B confirmed and the mode is Editing.
C2_Witness ==
    /\ key = Some(KeyCodeChar(101))
    /\ input_mode = "Editing"
    /\ selected_model = "B"
    /\ input = << >>

\* C3: the selection index, if present, is less than the catalog length (so
\* absent on an empty catalog), and confirm never reads outside the catalog.
C3_SelectionInCatalog ==
    /\ list_selected # None => list_selected[1] < Len(models)
    /\ panicked # Some("index_out_of_bounds")

\* C4: a submit handled in Editing mode with an empty buffer leaves the log,
\* the buffer, the cursor and the scroll state as they were and hands no
\* request to the chat service.
C4_EmptySubmitChangesNothing ==
    [][(/\ pc = "read" /\ input_mode = "Editing" /\ input = << >>
        /\ key' = Some(KeyCode("Enter")))
       => (/\ UNCHANGED <<chat_log, input, character_index, chat_scroll,
                          content_length>>
           /\ chat_request' = None
           /\ pc' # "awaiting")]_vars

\* C4: submit was handled in Editing mode on an empty buffer before any
\* message was ever sent.
C4_Witness ==
    /\ pc = "draw"
    /\ input_mode = "Editing"
    /\ key = Some(KeyCode("Enter"))
    /\ input = << >>
    /\ chat_log = << >>

\* C5: a submit handled in Editing mode with a non-empty buffer t appends one
\* Message tagged user with content t and a single outgoing request naming the
\* active model; the response adds no user Message; and when the submission
\* returns the buffer is empty and the cursor 0.
C5_SubmitAppendsUserTurn ==
    [][/\ (/\ pc = "read" /\ input_mode = "Editing" /\ input # << >>
           /\ key' = Some(KeyCode("Enter")))
          => (/\ Len(chat_log') = Len(chat_log) + 1
              /\ SubSeq(chat_log', 1, Len(chat_log)) = chat_log
              /\ LET m == chat_log'[Len(chat_log')] IN
                   /\ m.author = "user"
                   /\ m.content = input
                   /\ Len(m.origin_content) = 1
                   /\ m.origin_content[1].type = "OllamaRequest"
                   /\ m.origin_content[1].model = selected_model
                   /\ selected_model # "")
       /\ (pc = "awaiting" /\ pc' = "draw")
          => (/\ input' = << >>
              /\ character_index' = 0
              /\ \A i \in (Len(chat_log) + 1)..Len(chat_log') :
                    chat_log'[i].author # "user")]_vars

\* C5: a submission of U+00E9 'e' to model B has returned.
C5_Witness ==
    /\ pc = "draw"
    /\ key = Some(KeyCode("Enter"))
    /\ input = << >>
    /\ character_index = 0
    /\ Len(chat_log) >= 2
    /\ chat_log[1].author = "user"
    /\ chat_log[1].content = <<195, 169, 101>>
    /\ chat_log[1].origin_content[1].model = "B"

RECURSIVE FragmentConcat(_)
\* The text of the first k fragments of a response, concatenated in order.
FragmentConcat(k) ==
    IF k = 0 THEN << >> ELSE FragmentConcat(k - 1) \o FragmentTexts[k]

\* C6: a response of k >= 1 fragments adds exactly one Message tagged
\* assistant to the log, whose content is the k fragments' text concatenated
\* in order.
C6_OneAssistantMessagePerTurn ==
    [][\A k \in 1..MaxFragments :
          ChatOk(k) =>
             /\ Len(chat_log') = Len(chat_log) + 1
             /\ chat_log'[Len(chat_log')].author = "assistant"
             /\ chat_log'[Len(chat_log')].content = FragmentConcat(k)]_vars

\* C7: the log before a step is a prefix of the log after it.
C7_LogAppendOnly ==
    [][/\ Len(chat_log) <= Len(chat_log')
       /\ SubSeq(chat_log', 1, Len(chat_log)) = chat_log]_vars

\* C7: the log holds a user Message followed by the Messages of a response of
\* two fragments.
C7_Witness ==
    /\ Len(chat_log) >= 3
    /\ chat_log[1].author = "user"
    /\ chat_log[2].author = "assistant"
    /\ chat_log[3].author = "assistant"
    /\ chat_log[2].content = FragmentTexts[1]
    /\ chat_log[3].content = FragmentTexts[2]

\* The turns of a log as the messages of a ChatRequest.
History(log) == [i \in 1..Len(log) |-> MessageChunk(log[i].author, log[i].content)]

\* C8: the request an awaited chat call was given names the active model and
\* carries every turn of the log so far, the new user message last.
C8_RequestCarriesFullHistory ==
    pc = "awaiting" =>
        /\ chat_request[1].model = selected_model
        /\ chat_request[1].messages = History(chat_log)

\* C9: while a chat call is outstanding the session can handle a key event.
C9_InputHandledWhileAwaiting ==
    pc = "awaiting" => ENABLED HandleKey

\* C10: when the chat call of a submission fails, the submission returns with
\* the mode still Editing and with one Message tagged system added to the log
\* after the user's Message.
C10_TransportErrorLogged ==
    [][(ChatErr \/ ChatPanics) =>
          /\ pc' = "draw"
          /\ input_mode' = "Editing"
          /\ Len(chat_log') = Len(chat_log) + 1
          /\ SubSeq(chat_log', 1, Len(chat_log)) = chat_log
          /\ chat_log'[Len(chat_log')].author = "system"]_vars

\* C11: no load failure, chat failure or undecodable body aborts the session.
C11_NoErrorIsFatal ==
    panicked # Some("unwrap")

\* Lines of the log the chat area shows: its stored height less the two
\* border rows.
ViewportHeight == SaturatingSub(last_chat_area_height, 2)

\* The largest offset that still leaves the viewport filled: the log's lines
\* that do not fit.
MaxScrollOffset == SaturatingSub(Len(chat_log), ViewportHeight)

\* C12 as written: in every reachable state the scroll offset lies in the
\* half-open range from 0 up to, and excluding, max(0, total_lines - h).
C12_ScrollOffsetInHalfOpenRange ==
    /\ 0 <= chat_scroll
    /\ chat_scroll < Max(0, Len(chat_log) - ViewportHeight)

\* C12, amended: in every reachable state, whatever the stored viewport height
\* and the log size, the scroll offset lies in the closed range from 0 to
\* max(0, total_lines - h), so it is never past the last scrollable line.
C12_ScrollOffsetInRange ==
    /\ 0 <= chat_scroll
    /\ chat_scroll <= MaxScrollOffset

\* A drawn frame whose chat area shows fewer lines than the log holds.
C12_Witness ==
    /\ pc = "read"
    /\ last_chat_area_height > 2
    /\ Len(chat_log) > ViewportHeight
    /\ MaxScrollOffset >= 1

\* C13: when a submission completes in a chat area that shows at least one
\* line, the scroll offset is total_lines - visible height if the log has more
\* lines than fit, and 0 otherwise.
C13_CompletionScrollsToEnd ==
    [][(/\ pc = "awaiting" /\ pc' = "draw"
        /\ last_chat_area_height > 2)
       => chat_scroll' = IF Len(chat_log') > ViewportHeight
                         THEN Len(chat_log') - ViewportHeight
                         ELSE 0]_vars

\* C14: in Editing, in a chat area that shows at least one line, Down raises
\* the scroll offset by 1 and Up lowers it by 1, each clamped to the scroll
\* range, and the mode stays Editing; from offset 0 with a log longer than
\* the viewport Down yields offset 1.
C14_ArrowsScrollChat ==
    [][(/\ pc = "read" /\ input_mode = "Editing"
        /\ last_chat_area_height > 2)
       => /\ key' = Some(KeyCode("Down"))
               => /\ chat_scroll' = Min(chat_scroll + 1, MaxScrollOffset)
                  /\ input_mode' = "Editing"
          /\ key' = Some(KeyCode("Up"))
               => /\ chat_scroll' = SaturatingSub(chat_scroll, 1)
                  /\ input_mode' = "Editing"]_vars

\* n times KeyCode::Down in Normal mode, each followed by the draw of the next
\* loop iteration in a list area list_height rows high.
RECURSIVE select_next_times(_, _, _, _)
select_next_times(ms, sel, list_height, n) ==
    IF n = 0 THEN sel
    ELSE select_next_times(ms,
             render_model_list(ms, select_next(sel), list_height),
             list_height, n - 1)

\* n times KeyCode::Up in Normal mode, each followed by the next draw.
RECURSIVE select_previous_times(_, _, _, _)
select_previous_times(ms, sel, list_height, n) ==
    IF n = 0 THEN sel
    ELSE select_previous_times(ms,
             render_model_list(ms, select_previous(sel), list_height),
             list_height, n - 1)

\* C15: with an entry of a catalog of N >= 1 models selected, N times
\* select-next, drawn at any terminal height, ends at the original index or at
\* the last index N - 1, and N times select-previous ends at the original
\* index or at index 0.
C15_SelectionWrapsOrClamps ==
    (/\ pc = "read"
     /\ Len(models) >= 1
     /\ list_selected # None
     /\ list_selected[1] < Len(models))
    => \A h \in FrameHeights :
         LET N == Len(models)
             list_height == ListAreaHeight(h, N)
         IN /\ select_next_times(models, list_selected, list_height, N)
                  \in {list_selected, Some(N - 1)}
            /\ select_previous_times(models, list_selected, list_height, N)
                  \in {list_selected, Some(0)}

\* KeyCode::Enter handled in Normal mode sets the active model to the
\* selected entry of the catalog, and changes nothing with no selection.
ConfirmTakesHighlighted ==
    (/\ pc = "read" /\ input_mode = "Normal"
     /\ key' = Some(KeyCode("Enter")))
    => /\ list_selected = None => UNCHANGED <<selected_model, models, list_selected>>
       /\ (list_selected # None /\ list_selected[1] < Len(models))
             => selected_model' = models[list_selected[1] + 1]

InitEditor ==
    /\ exit = FALSE
    /\ models = <<"A", "B">>
    /\ list_selected = Some(0)
    /\ selected_model = "A"
    /\ last_chat_area_height = ChatAreaHeight(17, 2)
    /\ input = << >>
    /\ input_mode = "Editing"
    /\ character_index = 0
    /\ chat_log = << >>
    /\ chat_scroll = 0
    /\ content_length = 0
    /\ chat_request = None
    /\ key = None
    /\ pc = "read"
    /\ panicked = None

\* The loop of App::run fed only editing keys, with chars of every width.
NextEditor ==
    \/ \E c \in EditorChars : EditingChar(c)
    \/ EditingBackspace \/ EditingLeft \/ EditingRight
    \/ \E h \in FrameHeights : Draw(h)

SpecEditor == InitEditor /\ [][NextEditor]_vars

\* The chars cs with c put in at index p.
InsertAt(cs, p, c) == SubSeq(cs, 1, p) \o <<c>> \o SubSeq(cs, p + 1, Len(cs))

\* The chars cs without the one at index p (0-based).
RemoveAt(cs, p) == SubSeq(cs, 1, p) \o SubSeq(cs, p + 2, Len(cs))

RECURSIVE EncodedWidth(_)
\* The sum of the encoded widths of the chars cs.
EncodedWidth(cs) ==
    IF cs = << >> THEN 0 ELSE Len(Utf8Encode(Head(cs))) + EncodedWidth(Tail(cs))

\* C17: a char of any encoded width typed with the cursor at p lands at scalar
\* index p and moves the cursor to p + 1, without a panic; the byte offset
\* derived from the cursor is always the sum of the encoded widths of the
\* chars before it; cursor-right at the end of a one-char buffer leaves the
\* cursor at 1.
C17_CursorCountsScalarValues ==
    [][/\ \A c \in EditorChars :
            (/\ pc = "read" /\ input_mode = "Editing"
             /\ key' = Some(KeyCodeChar(c)))
            => /\ panicked' = None
               /\ StrChars(input') = InsertAt(StrChars(input), character_index, c)
               /\ character_index' = character_index + 1
       /\ (/\ pc = "read" /\ input_mode = "Editing"
           /\ key' = Some(KeyCode("Right"))
           /\ Len(StrChars(input)) = 1 /\ character_index = 1)
          => character_index' = 1
       /\ get_character_index(input', character_index')
            = EncodedWidth(SubSeq(StrChars(input'), 1, character_index'))]_vars

\* The 4-byte char was typed into the empty buffer and cursor-right handled:
\* the cursor is at 1, the buffer's length in chars.
C17_Witness ==
    /\ key = Some(KeyCode("Right"))
    /\ input = Utf8Encode(128512)
    /\ Len(input) = 4
    /\ character_index = 1

\* C18: Backspace with the cursor at c > 0 removes exactly the char at index
\* c - 1 and moves the cursor to c - 1; with the cursor at 0 it changes neither
\* the buffer nor the cursor.
C18_BackspaceRemovesCharBeforeCursor ==
    [][(/\ pc = "read" /\ input_mode = "Editing"
        /\ key' = Some(KeyCode("Backspace")))
       => IF character_index > 0
          THEN /\ StrChars(input')
                    = RemoveAt(StrChars(input), character_index - 1)
               /\ input' = Collect(StrChars(input'))
               /\ character_index' = character_index - 1
          ELSE UNCHANGED <<input, character_index>>]_vars

\* Backspace was handled with the cursor at the end of a two-char buffer whose
\* first char is the 3-byte one: that char alone is left, the cursor after it.
C18_Witness ==
    /\ key = Some(KeyCode("Backspace"))
    /\ input = Utf8Encode(8364)
    /\ character_index = 1

\* ------------------------------------------ update_chat_log_multiple alone

\* The k chats App::chat builds from a stream of k responses of model m.
FragmentChats(m, k) ==
    LET req == input_chat(<<101>>, m).origin_content[1] IN
    [i \in 1..k |->
        [author |-> "assistant",
         content |-> ChatResponse(req, i, k).message.content,
         origin_content |-> <<ChatResponse(req, i, k)>>]]

\* A fresh App, about to fold fragments into its log.
InitFold ==
    /\ exit = FALSE
    /\ models = << >>
    /\ list_selected = None
    /\ selected_model = ""
    /\ last_chat_area_height = 0
    /\ input = << >>
    /\ input_mode = "Normal"
    /\ character_index = 0
    /\ chat_log = << >>
    /\ chat_scroll = 0
    /\ content_length = 0
    /\ chat_request = None
    /\ key = None
    /\ pc = "fold"
    /\ panicked = None

\* App::update_chat_log_multiple called with the k chats of model m.
FoldFragments(m, k) ==
    /\ pc = "fold"
    /\ Len(chat_log) < MaxLog
    /\ LET r == update_chat_log_multiple(chat_log, FragmentChats(m, k)) IN
         /\ chat_log' = r.chat_log
         /\ panicked' = r.panic
         /\ pc' = IF r.panic = None THEN "fold" ELSE "aborted"
    /\ UNCHANGED <<exit, models, list_selected, selected_model,
                   last_chat_area_height, input, input_mode, character_index,
                   chat_scroll, content_length, chat_request, key>>

NextFold == \E m \in FoldModels : \E k \in 0..MaxFragments : FoldFragments(m, k)

SpecFold == InitFold /\ [][NextFold]_vars

RECURSIVE Flatten(_)
\* The concatenation of the sequences in seqs.
Flatten(seqs) == IF seqs = << >> THEN << >> ELSE Head(seqs) \o Flatten(Tail(seqs))

\* C19: folding a non-empty ordered list of k fragments into any log appends
\* exactly one message, tagged assistant, whose content is the last fragment's
\* content and whose payloads are those of all k fragments in their order;
\* every message of a log built by folds is of that form.
C19_FoldKeepsLastContentAllPayloads ==
    /\ \A m \in FoldModels : \A k \in 1..MaxFragments :
          LET chats == FragmentChats(m, k)
              r == update_chat_log_multiple(chat_log, chats)
              new_chat == r.chat_log[Len(r.chat_log)]
          IN /\ r.panic = None
             /\ Len(r.chat_log) = Len(chat_log) + 1
             /\ SubSeq(r.chat_log, 1, Len(chat_log)) = chat_log
             /\ new_chat.author = "assistant"
             /\ new_chat.content = FragmentTexts[k]
             /\ Flatten(new_chat.origin_content)
                  = [i \in 1..k |-> chats[i].origin_content[1]]
    /\ \A j \in 1..Len(chat_log) :
          LET payloads == Flatten(chat_log[j].origin_content) IN
          /\ chat_log[j].author = "assistant"
          /\ Len(payloads) >= 1
          /\ chat_log[j].content = FragmentTexts[Len(payloads)]
          /\ \A i \in 1..Len(payloads) :
                /\ payloads[i].created_at = i
                /\ payloads[i].message.content = FragmentTexts[i]
                /\ payloads[i].done = (i = Len(payloads))

\* A log to which two fragments of model B were folded after another fold.
C19_Witness ==
    /\ pc = "fold"
    /\ Len(chat_log) = 2
    /\ chat_log[2].author = "assistant"
    /\ chat_log[2].content = FragmentTexts[2]
    /\ Len(chat_log[2].origin_content) = 2
    /\ chat_log[2].origin_content[2][1].model = "B"
    /\ chat_log[2].origin_content[2][1].done

\* C20: a key handled in Normal mode leaves the input, the cursor, the log and
\* the scroll offset unchanged; a key handled in Editing mode, up to the end
\* of its submission, leaves the catalog, the selection and the active model
\* unchanged; exit is set only by a key handled in Normal mode; Esc in Editing
\* mode changes the mode to Normal and nothing else of the App.
C20_KeyRoutingIsModeExclusive ==
    [][/\ (/\ pc = "read" /\ input_mode = "Normal" /\ key' # None)
          => UNCHANGED <<input, character_index, chat_log, chat_scroll>>
       /\ (/\ input_mode = "Editing"
           /\ \/ pc = "read" /\ key' # None
              \/ pc = "awaiting")
          => UNCHANGED <<models, list_selected, selected_model>>
       /\ exit' # exit
          => /\ pc = "read" /\ input_mode = "Normal" /\ key' # None
             /\ exit'
       /\ (/\ pc = "read" /\ input_mode = "Editing"
           /\ key' = Some(KeyCode("Esc")))
          => /\ input_mode' = "Normal"
             /\ UNCHANGED <<exit, models, list_selected, selected_model,
                            last_chat_area_height, input, character_index,
                            chat_log, chat_scroll, content_length,
                            chat_request, panicked>>]_vars

\* Esc was handled in Editing mode with text in the input and messages in the
\* log: the mode is Normal and the session goes on.
C20_Witness ==
    /\ key = Some(KeyCode("Esc"))
    /\ input_mode = "Normal"
    /\ ~exit
    /\ pc = "draw"
    /\ input # << >>
    /\ character_index > 0
    /\ chat_log # << >>
    /\ selected_model = "B"


====
